---- MODULE Spec2Model ----
(***************************************************************************)
(* A model of the native binding of @ronomon/direct-io (src/binding.c):    *)
(* the task shell (task_queue, the execute bodies, task_complete), the     *)
(* block-device query, the three platform-gated toggles and the aligned    *)
(* allocator.  The N-API thread pool, the operating system's control codes *)
(* and the allocator are the environment: their results are drawn from     *)
(* small sets with \E.                                                     *)
(*                                                                         *)
(* src/binding.cc is the older Nan binding of the same module; where it    *)
(* differs from binding.c (argument checks of getAlignedBuffer, no serial  *)
(* trimming) the model follows binding.c.                                  *)
(***************************************************************************)
EXTENDS Integers, Naturals, Sequences, FiniteSets, TLC

VARIABLES
    platform,   \* the #if branch the binding was compiled under
    ptr_size,   \* sizeof(void *) of the build
    tasks,      \* task id -> struct task_data plus its position in the shell
    lock,       \* the fds that hold the OS's advisory exclusive lock of the one file
    aborted,    \* the failed assert() that ended the process, or NoAbort
    thrown,     \* the JS exception of the last binding call, or NoThrow
    buffer      \* the outcome of the last get_aligned_buffer call

vars == <<platform, ptr_size, tasks, lock, aborted, thrown, buffer>>

----------------------------------------------------------------------------
(* Bounds of the model.                                                    *)

\* Task slots: the tasks in flight at once (in the task shell, where the
\* slots are not handed out again, also the tasks ever enqueued).
MaxTasks == 2
\* Longest raw serial number the device models return in the serial study.
MaxSerial == 3

(* Program constants.                                                      *)

\* limits.h INT_MAX of every supported platform (binding.c:49, binding.c:649).
INT_MAX == 2147483647
\* binding.c:27
DEVICE_SERIAL_MAX == 1024
\* sizeof(dxferp), the response buffer of the INQUIRY.
DXFERP_SIZE == 255
\* binding.c:141, the ASCII space
SPACE == 32

Platforms == {"linux", "apple", "win32", "freebsd"}

NoError == "NULL"
NoAbort == "none"
NoThrow == "none"

----------------------------------------------------------------------------
(* Fixed-width integers.  TLC's integers are 32 bits wide, so a 64-bit     *)
(* word is a sequence of 8 bytes, least significant first.                 *)

\* The bytes of a non-negative number n < 2^31, least significant first.
RECURSIVE ToBytes(_, _)
ToBytes(n, width) ==
    IF width = 0 THEN <<>> ELSE <<n % 256>> \o ToBytes(n \div 256, width - 1)

Zeros(width) == [i \in 1..width |-> 0]
Ones(width) == [i \in 1..width |-> 255]

\* The sign bit of a two's complement word.
IsNegative(w) == w[Len(w)] >= 128
IsZero(w) == \A i \in 1..Len(w) : w[i] = 0

\* (int64_t) x for an unsigned 32-bit x: zero extension.
ZeroExtend64(w) == w \o Zeros(8 - Len(w))
\* (int64_t) x for a signed 32-bit x: sign extension.
SignExtend64(w) == w \o (IF IsNegative(w) THEN Ones(8 - Len(w)) ELSE Zeros(8 - Len(w)))
\* (int64_t) x for an unsigned 64-bit x: the same 8 bytes, read as signed.
Reinterpret64(w) == w

Int64Zero == Zeros(8)

\* x + y + carry on byte sequences of equal length; the carry out is dropped
\* (arithmetic modulo 2^(8 * Len)).
RECURSIVE AddBytes(_, _, _)
AddBytes(x, y, carry) ==
    IF x = <<>> THEN <<>>
    ELSE LET sum == x[1] + y[1] + carry
         IN  <<sum % 256>> \o AddBytes(Tail(x), Tail(y), sum \div 256)

\* x * d + carry for one byte d, kept to Len(x) bytes.
RECURSIVE MulByte(_, _, _)
MulByte(x, d, carry) ==
    IF x = <<>> THEN <<>>
    ELSE LET prod == x[1] * d + carry
         IN  <<prod % 256>> \o MulByte(Tail(x), d, prod \div 256)

\* x * y kept to Len(x) bytes: y's bytes, least significant first, each
\* multiplying x shifted one byte further.
RECURSIVE MulBytes(_, _)
MulBytes(x, y) ==
    IF y = <<>> THEN Zeros(Len(x))
    ELSE AddBytes(MulByte(x, y[1], 0),
                  SubSeq(<<0>> \o MulBytes(x, Tail(y)), 1, Len(x)),
                  0)

\* -x in two's complement.
Negate(w) == AddBytes([i \in 1..Len(w) |-> 255 - w[i]], Zeros(Len(w)), 1)
\* |x| of a two's complement word, as an unsigned word of the same width.
Magnitude(w) == IF IsNegative(w) THEN Negate(w) ELSE w

\* The signed 64-bit product a * b and whether it overflows int64_t.  The
\* magnitudes are multiplied in 16 bytes, where nothing is lost.
SignedMul64(a, b) ==
    LET wide == MulBytes(Magnitude(a) \o Zeros(8), Magnitude(b))
        negative == IsNegative(a) # IsNegative(b)
        high == SubSeq(wide, 9, 16)
        low == SubSeq(wide, 1, 8)
        \* 2^63 itself is representable only as a negative product
        fits == /\ IsZero(high)
                /\ \/ low[8] < 128
                   \/ (negative /\ low = Zeros(7) \o <<128>>)
    IN  [overflow |-> ~fits, wrapped |-> MulBytes(a, b)]

----------------------------------------------------------------------------
(* JavaScript values handed to the binding.  A number is kept as           *)
(* hi * 2^31 + lo (+ 1/2 when frac), negated when neg, so that 2^31 and    *)
(* above can be told from INT_MAX without leaving TLC's integers.          *)

Num(n) == [type |-> "number", nan |-> FALSE, neg |-> FALSE, hi |-> 0, lo |-> n, frac |-> FALSE]
Pow31 == [Num(0) EXCEPT !.hi = 1]
NegOne == [Num(1) EXCEPT !.neg = TRUE]
Half == [Num(0) EXCEPT !.frac = TRUE]
NaN == [Num(0) EXCEPT !.nan = TRUE]
Function == [type |-> "function"]
Undefined == [type |-> "undefined"]

\* napi_get_cb_info: argv[i], undefined past the arguments actually passed.
Arg(args, i) == IF i <= Len(args) THEN args[i] ELSE Undefined

\* arg_int as written.
arg_int(value) ==
    IF \/ value.type # "number"                          \* napi_get_value_double != napi_ok
       \/ (value.neg /\ ~value.nan /\ (value.hi # 0 \/ value.lo # 0 \/ value.frac))  \* temp < 0
       \/ value.nan                                      \* isnan(temp)
       \/ (~value.nan /\ (value.hi > 0 \/ (value.lo = INT_MAX /\ value.frac)))  \* temp > INT_MAX
       \/ value.frac                                     \* (double) ((int) temp) != temp
    THEN [ok |-> FALSE, integer |-> 0]
    ELSE [ok |-> TRUE, integer |-> value.lo]

----------------------------------------------------------------------------
(* struct task_data, with the position of the task in the shell (pc), the  *)
(* native calls its execute body issued (calls), the errno the last of     *)
(* them left (errno), whether the last control code failed (ioctl_failed), *)
(* the file type fstat wrote to the execute body's st   *)
(* (st_mode), the bytes the device wrote to its dxferp (dxferp), the       *)
(* sector count in its logical_sectors (macOS), and what task_complete     *)
(* did with it: the callback invocations and their arguments (callbacks,   *)
(* argv, threw) and the releases in their order (events).                  *)

TaskIds == 1..MaxTasks

NoTask ==
    [ pc |-> "unused", execute |-> "none", fd |-> 0, value |-> 0, device |-> 0,
      device_sector_logical |-> Int64Zero, device_sector_physical |-> Int64Zero,
      device_size |-> Int64Zero, device_serial |-> <<>>, device_serial_size |-> 0,
      logical_sectors |-> Int64Zero,
      ref_callback |-> FALSE, async_work |-> FALSE, allocated |-> FALSE,
      error |-> NoError, errno |-> "none", ioctl_failed |-> FALSE,
      st_mode |-> "none", dxferp |-> <<>>, runs |-> 0, status |-> "none", calls |-> <<>>,
      callbacks |-> 0, argv |-> <<>>, threw |-> FALSE, events |-> <<>> ]

\* task_queue's initialisation of the calloc'ed task and its queueing.
NewTask(execute, fd, value, device) ==
    [ NoTask EXCEPT !.pc = "queued", !.execute = execute, !.fd = fd, !.value = value,
                    !.device = device, !.ref_callback = TRUE, !.async_work = TRUE,
                    !.allocated = TRUE ]

Running == aborted = NoAbort

Unused == {t \in TaskIds : tasks[t].pc = "unused"}
FreeSlot == CHOOSE t \in Unused : \A u \in Unused : t <= u

\* task_queue: calloc, fill the task, create the reference and the work, queue it.
task_queue(execute, fd, value, device, calloc_ok) ==
    IF ~calloc_ok
    THEN /\ thrown' = "insufficient memory"
         /\ UNCHANGED tasks
    ELSE /\ tasks' = [tasks EXCEPT ![FreeSlot] = NewTask(execute, fd, value, device)]
         /\ thrown' = NoThrow

\* task_args without the test of the range of value.
task_args_AnyValue(args, execute, calloc_ok) ==
    LET fd == arg_int(Arg(args, 1))
        value == arg_int(Arg(args, 2))
    IN  IF \/ Len(args) # 3
           \/ ~fd.ok
           \/ ~value.ok
           \/ Arg(args, 3).type # "function"
        THEN /\ thrown' = "bad arguments, expected: (fd, value=0/1, callback)"
             /\ UNCHANGED tasks
        ELSE task_queue(execute, fd.integer, value.integer, 0, calloc_ok)

\* task_args: the (fd, value, callback) check shared by the three toggles.
task_args(args, execute, calloc_ok) ==
    LET fd == arg_int(Arg(args, 1))
        value == arg_int(Arg(args, 2))
    IN  IF \/ Len(args) # 3
           \/ ~fd.ok
           \/ ~value.ok
           \/ Arg(args, 3).type # "function"
           \/ value.integer < 0
           \/ value.integer > 1
        THEN /\ thrown' = "bad arguments, expected: (fd, value=0/1, callback)"
             /\ UNCHANGED tasks
        ELSE task_queue(execute, fd.integer, value.integer, 0, calloc_ok)

\* get_block_device.
get_block_device(args, calloc_ok) ==
    LET fd == arg_int(Arg(args, 1))
    IN  IF \/ Len(args) # 2
           \/ ~fd.ok
           \/ Arg(args, 2).type # "function"
        THEN /\ thrown' = "bad arguments, expected: (fd, callback)"
             /\ UNCHANGED tasks
        ELSE task_queue("get_block_device", fd.integer, 0, 1, calloc_ok)

\* set_f_nocache, set_flock, set_fsctl_lock_volume: the platform gates.
set_f_nocache(args, calloc_ok) ==
    IF platform = "apple"
    THEN task_args(args, "set_f_nocache", calloc_ok)
    ELSE /\ thrown' = "only supported on mac os"
         /\ UNCHANGED tasks

set_flock(args, calloc_ok) ==
    IF platform = "win32"
    THEN /\ thrown' = "not supported on windows"
         /\ UNCHANGED tasks
    ELSE task_args(args, "set_flock", calloc_ok)

\* set_fsctl_lock_volume without its platform gate.
set_fsctl_lock_volume_Ungated(args, calloc_ok) ==
    task_args(args, "set_fsctl_lock_volume", calloc_ok)

set_fsctl_lock_volume(args, calloc_ok) ==
    IF platform = "win32"
    THEN task_args(args, "set_fsctl_lock_volume", calloc_ok)
    ELSE /\ thrown' = "only supported on windows"
         /\ UNCHANGED tasks

----------------------------------------------------------------------------
(* The execute bodies.  Each takes the task and what the operating system  *)
(* answers to the native calls it makes, and returns the task as the body  *)
(* leaves it.  calls logs the native calls in the order they are issued.   *)

Fail(task, message) == [task EXCEPT !.error = message]
Call(task, name) == [task EXCEPT !.calls = Append(@, name)]
\* A control code (ioctl, DeviceIoControl) is issued and succeeds or fails.
Ioctl(task, name, ok) == [Call(task, name) EXCEPT !.ioctl_failed = ~ok]

\* task_assert: the eight assertions on a task entering an execute body.
task_assert(task) ==
    /\ task.fd >= 0
    /\ task.value = 0 \/ task.value = 1
    /\ task.device = 0 \/ task.device = 1
    /\ task.device_sector_logical = Int64Zero
    /\ task.device_sector_physical = Int64Zero
    /\ task.device_size = Int64Zero
    /\ task.device_serial_size = 0
    /\ task.error = NoError

\* size_linux reporting a failed BLKPBSZGET under the name of BLKSSZGET.
size_linux_Misnamed(task, g) ==
    LET t1 == Ioctl(task, "BLKSSZGET", g.ok[1])
        t2 == Ioctl(t1, "BLKPBSZGET", g.ok[2])
        t3 == Ioctl(t2, "BLKGETSIZE64", g.ok[3])
    IN  IF ~g.ok[1] THEN Fail(t1, "BLKSSZGET failed")
        ELSE IF IsNegative(g.logical) THEN Fail(t1, "logical_sector < 0")
        ELSE IF ~g.ok[2] THEN Fail(t2, "BLKSSZGET failed")
        ELSE IF ~g.ok[3] THEN Fail(t3, "BLKGETSIZE64 failed")
        ELSE [t3 EXCEPT !.device_sector_logical = SignExtend64(g.logical),
                        !.device_sector_physical = ZeroExtend64(g.physical),
                        !.device_size = Reinterpret64(g.size)]

\* Linux: BLKSSZGET (int), BLKPBSZGET (unsigned int), BLKGETSIZE64 (uint64_t).
size_linux(task, g) ==
    LET t1 == Ioctl(task, "BLKSSZGET", g.ok[1])
        t2 == Ioctl(t1, "BLKPBSZGET", g.ok[2])
        t3 == Ioctl(t2, "BLKGETSIZE64", g.ok[3])
    IN  IF ~g.ok[1] THEN Fail(t1, "BLKSSZGET failed")
        ELSE IF IsNegative(g.logical) THEN Fail(t1, "logical_sector < 0")
        ELSE IF ~g.ok[2] THEN Fail(t2, "BLKPBSZGET failed")
        ELSE IF ~g.ok[3] THEN Fail(t3, "BLKGETSIZE64 failed")
        ELSE [t3 EXCEPT !.device_sector_logical = SignExtend64(g.logical),
                        !.device_sector_physical = ZeroExtend64(g.physical),
                        !.device_size = Reinterpret64(g.size)]

\* macOS: DKIOCGETBLOCKSIZE (uint32_t), DKIOCGETPHYSICALBLOCKSIZE (uint32_t),
\* DKIOCGETBLOCKCOUNT (uint64_t); size is the product of two int64_t, whose
\* overflow is undefined: ub is what the build then leaves in device_size.
size_apple(task, g, ub) ==
    LET t1 == Ioctl(task, "DKIOCGETBLOCKSIZE", g.ok[1])
        t2 == Ioctl(t1, "DKIOCGETPHYSICALBLOCKSIZE", g.ok[2])
        t3 == Ioctl(t2, "DKIOCGETBLOCKCOUNT", g.ok[3])
        product == SignedMul64(ZeroExtend64(g.logical), Reinterpret64(g.size))
    IN  IF ~g.ok[1] THEN Fail(t1, "DKIOCGETBLOCKSIZE failed")
        ELSE IF ~g.ok[2] THEN Fail(t2, "DKIOCGETPHYSICALBLOCKSIZE failed")
        ELSE IF ~g.ok[3] THEN Fail(t3, "DKIOCGETBLOCKCOUNT failed")
        ELSE [t3 EXCEPT !.logical_sectors = g.size,
                        !.device_sector_logical = ZeroExtend64(g.logical),
                        !.device_sector_physical = ZeroExtend64(g.physical),
                        !.device_size = IF product.overflow THEN ub ELSE product.wrapped]

\* Windows: uv_get_osfhandle, IOCTL_STORAGE_QUERY_PROPERTY (two ULONG),
\* IOCTL_DISK_GET_DRIVE_GEOMETRY_EX (LARGE_INTEGER).  The sector sizes are
\* stored in the task before the second control code is issued.
size_win32(task, g) ==
    LET t0 == Call(task, "uv_get_osfhandle")
        t1 == Ioctl(t0, "IOCTL_STORAGE_QUERY_PROPERTY", g.ok[1])
        t2 == [t1 EXCEPT !.device_sector_logical = ZeroExtend64(g.logical),
                         !.device_sector_physical = ZeroExtend64(g.physical)]
        t3 == Ioctl(t2, "IOCTL_DISK_GET_DRIVE_GEOMETRY_EX", g.ok[2])
    IN  IF ~g.handle THEN Fail(t0, "EBADF: bad file descriptor")
        ELSE IF ~g.ok[1] THEN Fail(t1, "IOCTL_STORAGE_QUERY_PROPERTY failed")
        ELSE IF ~g.ok[2] THEN Fail(t3, "IOCTL_DISK_GET_DRIVE_GEOMETRY_EX failed")
        ELSE [t3 EXCEPT !.device_size = g.size]

\* FreeBSD: DIOCGSECTORSIZE (unsigned int), DIOCGSTRIPESIZE (off_t),
\* DIOCGMEDIASIZE (off_t).
size_freebsd(task, g) ==
    LET t1 == Ioctl(task, "DIOCGSECTORSIZE", g.ok[1])
        t2 == Ioctl(t1, "DIOCGSTRIPESIZE", g.ok[2])
        t3 == Ioctl(t2, "DIOCGMEDIASIZE", g.ok[3])
    IN  IF ~g.ok[1] THEN Fail(t1, "DIOCGSECTORSIZE failed")
        ELSE IF ~g.ok[2] THEN Fail(t2, "DIOCGSTRIPESIZE failed")
        ELSE IF IsNegative(g.physical) THEN Fail(t2, "physical_sector < 0")
        ELSE IF ~g.ok[3] THEN Fail(t3, "DIOCGMEDIASIZE failed")
        ELSE IF IsNegative(g.size) THEN Fail(t3, "size < 0")
        ELSE [t3 EXCEPT !.device_sector_logical = ZeroExtend64(g.logical),
                        !.device_sector_physical = g.physical,
                        !.device_size = g.size]

\* task_execute_get_block_device_size.
task_execute_get_block_device_size(task, g, ub) ==
    CASE platform = "apple" -> size_apple(task, g, ub)
      [] platform = "win32" -> size_win32(task, g)
      [] platform = "freebsd" -> size_freebsd(task, g)
      [] OTHER -> size_linux(task, g)

\* dxferp[i] after SG_IO: a byte of the device's response, or, past the
\* response, whatever the uninitialised array (or, from DXFERP_SIZE on, the
\* stack behind it) holds.
Dxferp(s, i) == IF i < Len(s.resp) THEN s.resp[i + 1] ELSE s.junk

\* The copy loop of the SCSI path: length bytes from dxferp[4] on.
CopySerial(task, s) ==
    LET length == IF Dxferp(s, 3) < DEVICE_SERIAL_MAX THEN Dxferp(s, 3) ELSE DEVICE_SERIAL_MAX
    IN  [task EXCEPT !.dxferp = s.resp,
                     !.device_serial = [i \in 1..length |-> Dxferp(s, 4 + (i - 1))],
                     !.device_serial_size = length]

\* Linux: SG_GET_VERSION_NUM, then the INQUIRY of page 0x80 through SG_IO.
serial_linux(task, s) ==
    LET t1 == Ioctl(task, "SG_GET_VERSION_NUM", s.ok[1])
        t2 == Ioctl(t1, "SG_IO", s.ok[2])
    IN  IF ~s.ok[1] THEN Fail(t1, "SG_GET_VERSION_NUM failed")
        ELSE IF s.version < 30000 THEN Fail(t1, "SG_GET_VERSION_NUM < 30000")
        ELSE IF ~s.ok[2] THEN Fail(t2, "SG_IO failed")
        ELSE IF ~s.info_ok THEN Fail(t2, "SG_INFO_OK_MASK failed")
        ELSE IF s.masked_status # 0 THEN Fail(t2, "io_hdr.masked_status was non-zero")
        ELSE IF s.host_status # 0 THEN Fail(t2, "io_hdr.host_status was non-zero")
        ELSE IF s.driver_status # 0 THEN Fail(t2, "io_hdr.driver_status was non_zero")
        ELSE IF Dxferp(s, 1) # 128 THEN Fail(t2, "dxferp[1] != 0x80")
        ELSE CopySerial(t2, s)

\* strlen: the bytes before the first NUL (the task was calloc'ed, so one follows).
RECURSIVE strlen(_)
strlen(bytes) ==
    IF bytes = <<>> \/ bytes[1] = 0 THEN 0 ELSE 1 + strlen(Tail(bytes))

\* FreeBSD: DIOCGIDENT writes the identity string into device_serial.
serial_freebsd(task, s) ==
    LET t1 == Ioctl(task, "DIOCGIDENT", s.ok[1])
    IN  IF ~s.ok[1] THEN Fail(t1, "DIOCGIDENT failed")
        ELSE [t1 EXCEPT !.device_serial = s.resp,
                        !.device_serial_size = strlen(s.resp)]

\* task_execute_get_block_device_serial: macOS and Windows leave the serial empty.
task_execute_get_block_device_serial(task, s) ==
    CASE platform \in {"apple", "win32"} -> task
      [] platform = "freebsd" -> serial_freebsd(task, s)
      [] OTHER -> serial_linux(task, s)

\* validate without the test of the file type.
validate_Unchecked(task, st) ==
    IF platform = "win32" THEN task
    ELSE LET t1 == Call(task, "fstat")
             t2 == [t1 EXCEPT !.st_mode = st.mode]
         IN  IF ~st.ok THEN Fail(t1, "fstat failed") ELSE t2

\* Lines 446-463 of task_execute_get_block_device: the fstat check, compiled
\* out on Windows.
validate(task, st) ==
    IF platform = "win32" THEN task
    ELSE LET t1 == Call(task, "fstat")
             t2 == [t1 EXCEPT !.st_mode = st.mode]
         IN  IF ~st.ok THEN Fail(t1, "fstat failed")
             ELSE IF st.mode # "S_IFBLK" /\ st.mode # "S_IFCHR"
                  THEN Fail(t2, "fd is not a block or character device")
                  ELSE t2

\* task_execute_set_f_nocache: fcntl(fd, F_NOCACHE, value).
task_execute_set_f_nocache(task, errno) ==
    LET t1 == [Call(task, "fcntl") EXCEPT !.errno = errno]
    IN  IF errno = "none" THEN t1
        ELSE IF errno = "EBADF" THEN Fail(t1, "EBADF: bad file descriptor, fcntl")
        ELSE Fail(t1, "unexpected error, fcntl")

\* flock_error without the branches of EINVAL and ENOTSUP.
flock_error_Collapsed(errno) ==
    CASE errno = "EWOULDBLOCK" -> "EWOULDBLOCK, the file is already locked"
      [] errno = "EBADF" -> "EBADF, fd is an invalid file descriptor"
      [] errno = "EINTR" -> "EINTR, the call was interrupted by a signal"
      [] OTHER -> "unable to obtain an exclusive lock"

\* The message task_execute_set_flock gives each errno of flock.
flock_error(errno) ==
    CASE errno = "EWOULDBLOCK" -> "EWOULDBLOCK, the file is already locked"
      [] errno = "EBADF" -> "EBADF, fd is an invalid file descriptor"
      [] errno = "EINTR" -> "EINTR, the call was interrupted by a signal"
      [] errno = "EINVAL" -> "EINVAL, fd does not refer to a file"
      [] errno = "ENOTSUP" -> "ENOTSUP, fd is not of the correct type"
      [] OTHER -> "unable to obtain an exclusive lock"

\* Line 490: the operation task_execute_set_flock hands to flock.
flock_operation(task) ==
    IF task.value = 0 THEN "flock(LOCK_UN)" ELSE "flock(LOCK_EX|LOCK_NB)"

\* task_execute_set_flock with the two operations exchanged.
task_execute_set_flock_Swapped(task, errno) ==
    LET t1 == [Call(task, IF task.value = 0 THEN "flock(LOCK_EX|LOCK_NB)" ELSE "flock(LOCK_UN)")
                 EXCEPT !.errno = errno]
    IN  IF errno = "none" THEN t1 ELSE Fail(t1, flock_error(errno))

\* task_execute_set_flock: flock(fd, value == 0 ? LOCK_UN : LOCK_EX | LOCK_NB).
task_execute_set_flock(task, errno) ==
    LET t1 == [Call(task, flock_operation(task)) EXCEPT !.errno = errno]
    IN  IF errno = "none" THEN t1 ELSE Fail(t1, flock_error(errno))

\* task_execute_set_fsctl_lock_volume.
task_execute_set_fsctl_lock_volume(task, handle, ok) ==
    LET t0 == Call(task, "uv_get_osfhandle")
        t1 == Ioctl(t0, IF task.value # 0 THEN "FSCTL_LOCK_VOLUME" ELSE "FSCTL_UNLOCK_VOLUME", ok)
    IN  IF ~handle THEN Fail(t0, "EBADF: bad file descriptor")
        ELSE IF ~ok
             THEN Fail(t1, IF task.value # 0 THEN "FSCTL_LOCK_VOLUME failed"
                                             ELSE "FSCTL_UNLOCK_VOLUME failed")
             ELSE t1

---------------------------------------------------------------------------------------------------------------------------------------------------
(* The operating system's flock on the one file: the exclusive lock is     *)
(* held through the open file description of a handle.                     *)

\* The errors of flock other than contention.
FlockFaults == {"EBADF", "EINTR", "EINVAL", "ENOTSUP", "ENOLCK"}

\* What flock may answer to operation on fd: EWOULDBLOCK to a non-blocking
\* lock request while another handle holds the lock and success otherwise,
\* or one of its other errors.
FlockErrnos(fd, operation) ==
    (IF operation = "flock(LOCK_EX|LOCK_NB)" /\ lock \ {fd} # {}
     THEN {"EWOULDBLOCK"} ELSE {"none"})
    \cup FlockFaults

\* The holders of the lock after flock answered errno to operation on fd.
FlockEffect(fd, operation, errno) ==
    IF errno # "none" THEN lock
    ELSE IF operation = "flock(LOCK_EX|LOCK_NB)" THEN lock \cup {fd}
    ELSE lock \ {fd}

-----
(* task_complete.                                                          *)

\* The two trimming loops of task_complete over device_serial: start is how
\* far the serial pointer has advanced, size the bytes still counted.
RECURSIVE SkipLeading(_, _, _)
SkipLeading(serial, start, size) ==
    IF size > 0 /\ serial[start + 1] = SPACE
    THEN SkipLeading(serial, start + 1, size - 1)
    ELSE [start |-> start, size |-> size]

RECURSIVE DropTrailing(_, _, _)
DropTrailing(serial, start, size) ==
    IF size > 0 /\ serial[start + size] = SPACE
    THEN DropTrailing(serial, start, size - 1)
    ELSE [start |-> start, size |-> size]

\* TrimSerial whose second loop stops one space early.
TrimSerial_KeepsOneSpace(serial, serial_size) ==
    LET a == SkipLeading(serial, 0, serial_size)
        b == DropTrailing(serial, a.start, a.size)
        size == IF b.size < a.size THEN b.size + 1 ELSE b.size
    IN  SubSeq(serial, b.start + 1, b.start + size)

\* The bytes handed to napi_create_string_utf8 (all ASCII in this model, so
\* the string has exactly these characters).
TrimSerial(serial, serial_size) ==
    LET a == SkipLeading(serial, 0, serial_size)
        b == DropTrailing(serial, a.start, a.size)
    IN  SubSeq(serial, b.start + 1, b.start + b.size)

\* set_int's assertion.
set_int_ok(integer) == ~IsNegative(integer)

\* CallbackArgs with the device branch tested before the error slot.
CallbackArgs_DeviceFirst(task) ==
    IF task.device = 1
    THEN << Undefined,
            [ type |-> "object",
              logicalSectorSize |-> task.device_sector_logical,
              physicalSectorSize |-> task.device_sector_physical,
              size |-> task.device_size,
              serialNumber |-> TrimSerial(task.device_serial, task.device_serial_size) ] >>
    ELSE IF task.error # NoError
    THEN << [type |-> "error", message |-> task.error] >>
    ELSE << Undefined >>

\* The arguments task_complete builds for the callback.
CallbackArgs(task) ==
    IF task.error # NoError
    THEN << [type |-> "error", message |-> task.error] >>
    ELSE IF task.device = 0
    THEN << Undefined >>
    ELSE << Undefined,
            [ type |-> "object",
              logicalSectorSize |-> task.device_sector_logical,
              physicalSectorSize |-> task.device_sector_physical,
              size |-> task.device_size,
              serialNumber |-> TrimSerial(task.device_serial, task.device_serial_size) ] >>

\* The assert() of task_complete (set_int's included) that fails before the
\* callback is called, if any.
CompleteAssert(task) ==
    IF task.error # NoError THEN NoAbort
    ELSE IF task.device = 0
    THEN IF /\ task.device_sector_logical = Int64Zero
            /\ task.device_sector_physical = Int64Zero
            /\ task.device_size = Int64Zero
            /\ task.device_serial_size = 0
         THEN NoAbort
         ELSE "task_complete: device field of a toggle task is not 0"
    ELSE IF /\ set_int_ok(task.device_sector_logical)
            /\ set_int_ok(task.device_sector_physical)
            /\ set_int_ok(task.device_size)
         THEN NoAbort
         ELSE "set_int: integer >= 0"

\* Line 156: napi_call_function, whose status is not looked at.
Notify(task, throws) ==
    [task EXCEPT !.callbacks = @ + 1, !.argv = CallbackArgs(task), !.threw = throws,
                 !.events = Append(@, "napi_call_function")]

\* Release that is skipped when the callback threw.
Release_UnlessThrown(task) ==
    IF task.threw THEN [task EXCEPT !.pc = "destroyed"]
    ELSE [task EXCEPT !.ref_callback = FALSE, !.async_work = FALSE, !.allocated = FALSE,
                      !.events = @ \o <<"napi_delete_reference", "napi_delete_async_work", "free">>,
                      !.pc = "destroyed"]

\* Lines 159-162: the reference, the work and the task are released.
Release(task) ==
    [task EXCEPT !.ref_callback = FALSE, !.async_work = FALSE, !.allocated = FALSE,
                 !.events = @ \o <<"napi_delete_reference", "napi_delete_async_work", "free">>,
                 !.pc = "destroyed"]

\* task_complete without the napi_cancelled branch.
task_complete_IgnoresCancel(task, status, throws) ==
    LET t1 == [task EXCEPT !.status = status, !.pc = "completing"]
        t2 == Notify(t1, throws)
    IN  IF CompleteAssert(t1) # NoAbort
        THEN [task |-> t1, abort |-> CompleteAssert(t1)]
        ELSE [task |-> Release(t2), abort |-> NoAbort]

\* task_complete: the task it leaves and the assertion that ended the process, if any.
task_complete(task, status, throws) ==
    LET t1 == [(IF status = "napi_cancelled" THEN Fail(task, "async work was cancelled") ELSE task)
                 EXCEPT !.status = status, !.pc = "completing"]
        t2 == Notify(t1, throws)
    IN  IF CompleteAssert(t1) # NoAbort
        THEN [task |-> t1, abort |-> CompleteAssert(t1)]
        ELSE IF ~t2.ref_callback \/ ~t2.async_work
        THEN [task |-> t2, abort |-> "task_complete: ref_callback / async_work != NULL"]
        ELSE [task |-> Release(t2), abort |-> NoAbort]

----------------------------------------------------------------------------
(* What the environment may answer: the arguments of the calls and the     *)
(* results of the native calls, drawn from small sets.                     *)

\* 2^k as a 64-bit word.
Pow64(k) == [i \in 1..8 |-> IF i = (k \div 8) + 1 THEN 2 ^ (k % 8) ELSE 0]

SeqsUpTo(S, n) == UNION {[1..k -> S] : k \in 0..n}

\* Arguments of getBlockDevice and of the toggles: two handles (3 and 4) on
\* the one file, and calls the argument checks refuse.
BlockDeviceArgs ==
    { <<Num(3), Function>>, <<Num(3)>>, <<NegOne, Function>>, <<Num(3), Undefined>> }
ToggleArgs ==
    { <<Num(3), Num(1), Function>>, <<Num(3), Num(0), Function>>,
      <<Num(4), Num(1), Function>>, <<Num(3), Num(2), Function>>,
      <<Half, Num(1), Function>>, <<Num(3), Num(1)>> }

\* fstat: it fails, or reports the mode of the descriptor.
StatResults ==
    { [ok |-> FALSE, mode |-> "S_IFREG"] } \cup
    { [ok |-> TRUE, mode |-> m] : m \in {"S_IFBLK", "S_IFCHR", "S_IFREG"} }

\* The first control code that fails, if any (what the later ones would
\* answer is then never asked).
OkPatterns == { <<TRUE, TRUE, TRUE>>, <<FALSE, TRUE, TRUE>>, <<TRUE, FALSE, TRUE>>,
                <<TRUE, TRUE, FALSE>> }

\* Sector sizes and sizes a device reports, in the C type of each platform:
\* 512 and 4096, the word with every bit set (-1 as an int or an off_t), and
\* sizes (or sector counts) of 2^40, 2^54 and 2^63.
LogicalValues == { ToBytes(512, 4), Ones(4) }
PhysicalValues == IF platform = "freebsd" THEN { ToBytes(4096, 8), Ones(8) }
                  ELSE { ToBytes(4096, 4) }
SizeValues == { Pow64(40), Pow64(54), Pow64(63) }

GeometryResults ==
    { [handle |-> h, ok |-> ok, logical |-> l, physical |-> ph, size |-> sz] :
        h \in (IF platform = "win32" THEN BOOLEAN ELSE {TRUE}),
        ok \in OkPatterns, l \in LogicalValues, ph \in PhysicalValues, sz \in SizeValues }

\* What an overflowing signed multiplication may leave behind: the wrapped
\* product, or any other word.
UndefinedInt64(g) ==
    { SignedMul64(ZeroExtend64(g.logical), g.size).wrapped, Int64Zero, Ones(8) }

\* A well-behaved generic-SCSI answer carrying resp in dxferp.
SgOk(resp, junk) ==
    [ ok |-> <<TRUE, TRUE>>, version |-> 30527, info_ok |-> TRUE, masked_status |-> 0,
      host_status |-> 0, driver_status |-> 0, resp |-> resp, junk |-> junk ]

\* The unit-serial-number page: page code 0x80 at offset 1, the declared
\* length at offset 3, the serial from offset 4.
SerialPage(declared, payload) == <<0, 128, 0, declared>> \o payload

SgFailures ==
    LET good == SgOk(SerialPage(1, <<65>>), 0)
    IN  { [good EXCEPT !.ok = <<FALSE, TRUE>>], [good EXCEPT !.version = 20000],
          [good EXCEPT !.ok = <<TRUE, FALSE>>], [good EXCEPT !.info_ok = FALSE],
          [good EXCEPT !.masked_status = 1], [good EXCEPT !.host_status = 7],
          [good EXCEPT !.driver_status = 8], [good EXCEPT !.resp = <<0, 131, 0, 1, 65>>] }

\* A page the device cut short: 8 bytes declared, one transferred.
ShortPage == SerialPage(8, <<65>>)
\* A page that declares the longest serial its length byte can express and
\* fills the response buffer.
LongPage == SerialPage(255, [i \in 1..(DXFERP_SIZE - 4) |-> 65])

\* The serial answers of the platform for the raw serials in payloads: on
\* Linux also a page that declares one byte more than the device returned
\* (the byte is then read from the uninitialised part of dxferp), ShortPage
\* and LongPage; on
\* FreeBSD the NUL-terminated string, also with bytes left behind the NUL.
SerialResults(payloads) ==
    IF platform = "linux"
    THEN SgFailures
         \cup { SgOk(SerialPage(Len(pl), pl), 0) : pl \in payloads }
         \cup { SgOk(SerialPage(Len(pl) + 1, pl), junk) : pl \in payloads, junk \in {SPACE, 65} }
         \cup { SgOk(page, junk) : page \in {ShortPage, LongPage}, junk \in {SPACE, 65} }
    ELSE IF platform = "freebsd"
    THEN { [SgOk(<<>>, 0) EXCEPT !.ok = <<FALSE, TRUE>>] }
         \cup { SgOk(pl \o <<0>>, 0) : pl \in payloads }
         \cup { SgOk(pl \o <<0, SPACE, 65>>, 0) : pl \in payloads }
    ELSE { SgOk(<<>>, 0) }

\* Raw serials of the shell study, and of the serial study: every string of
\* at most MaxSerial characters over space, TAB and "A", and "  ABC123  ".
ShellPayloads == { <<>>, <<SPACE, 65, SPACE>> }
Example == <<32, 32, 65, 66, 67, 49, 50, 51, 32, 32>>
SerialPayloads == SeqsUpTo({SPACE, 9, 65}, MaxSerial) \cup {Example}

----------------------------------------------------------------------------
(* The aligned allocator.                                                  *)

\* a & b on non-negative integers.
RECURSIVE BitAnd(_, _)
BitAnd(a, b) ==
    IF a = 0 \/ b = 0 THEN 0
    ELSE (a % 2) * (b % 2) + 2 * BitAnd(a \div 2, b \div 2)

NoBuffer(args) ==
    [ args |-> args, allocated |-> FALSE, size |-> 0, alignment |-> 0, ptr |-> 0,
      zeroed |-> 0, garbage |-> 0, finalizer |-> "none", finalized |-> 0 ]

Throw(args, message) == [thrown |-> message, abort |-> NoAbort, buffer |-> NoBuffer(args)]

\* posix_memalign's own check of its alignment argument.
PosixEinval(alignment) ==
    \/ alignment = 0
    \/ BitAnd(alignment, alignment - 1) # 0
    \/ alignment % ptr_size # 0

\* Where the platform's allocator puts a block of the alignment asked for:
\* the m.slot-th multiple of it (the low 31 bits of the address).
AllocAddress(alignment, m) == m.slot * alignment

\* memset that stops one byte short.
Memset_OneShort(block, size) == [block EXCEPT !.zeroed = size - 1]

\* memset(ptr, 0, size): the first size bytes of the block are zero.
Memset(block, size) == [block EXCEPT !.zeroed = size]

\* Lines 580-596 of get_aligned_buffer: the allocation, the two assertions,
\* the zero fill and the external buffer with its finalizer.
Allocate(args, size, alignment, m) ==
    LET ptr == IF m.result = "ok" THEN AllocAddress(alignment, m) ELSE 0
        block == [ NoBuffer(args) EXCEPT !.allocated = TRUE, !.size = size,
                                          !.alignment = alignment, !.ptr = ptr,
                                          !.garbage = m.garbage,
                                          !.finalizer = IF platform = "win32"
                                                        THEN "_aligned_free" ELSE "free" ]
    IN  IF platform = "win32" /\ m.result # "ok" THEN Throw(args, "insufficient memory")
        ELSE IF platform # "win32" /\ PosixEinval(alignment) THEN Throw(args, "bad alignment argument")
        ELSE IF platform # "win32" /\ m.result = "ENOMEM" THEN Throw(args, "insufficient memory")
        ELSE IF platform # "win32" /\ m.result # "ok" THEN Throw(args, "unexpected error, posix_memalign")
        ELSE IF ptr = 0
        THEN [thrown |-> NoThrow, abort |-> "get_aligned_buffer: ptr != NULL", buffer |-> NoBuffer(args)]
        ELSE IF BitAnd(ptr, alignment - 1) # 0
        THEN [thrown |-> NoThrow, abort |-> "get_aligned_buffer: pointer is aligned", buffer |-> NoBuffer(args)]
        ELSE [thrown |-> NoThrow, abort |-> NoAbort, buffer |-> Memset(block, size)]

\* get_aligned_buffer with the alignment == 0 test moved before the size tests.
get_aligned_buffer_Reordered(args, m) ==
    LET int_size == arg_int(Arg(args, 1))
        int_alignment == arg_int(Arg(args, 2))
        size == int_size.integer
        alignment == int_alignment.integer
    IN  IF Len(args) # 2 \/ ~int_size.ok \/ ~int_alignment.ok
        THEN Throw(args, "bad arguments, expected: (size, alignment)")
        ELSE IF alignment = 0 THEN Throw(args, "alignment must not be 0")
        ELSE IF size = 0 THEN Throw(args, "size must not be 0")
        ELSE IF size > INT_MAX THEN Throw(args, "size must be at most 2147483647 bytes")
        ELSE IF BitAnd(alignment, alignment - 1) # 0 THEN Throw(args, "alignment must be a power of 2")
        ELSE IF alignment < 8 THEN Throw(args, "alignment must be at least 8 bytes")
        ELSE IF alignment > 4194304 THEN Throw(args, "alignment must be at most 4194304 bytes")
        ELSE IF alignment < ptr_size THEN Throw(args, "alignment must be at least as large as a pointer")
        ELSE Allocate(args, size, alignment, m)

\* get_aligned_buffer with size >= 2147483647 for size > 2147483647.
get_aligned_buffer_OffByOne(args, m) ==
    LET int_size == arg_int(Arg(args, 1))
        int_alignment == arg_int(Arg(args, 2))
        size == int_size.integer
        alignment == int_alignment.integer
    IN  IF Len(args) # 2 \/ ~int_size.ok \/ ~int_alignment.ok
        THEN Throw(args, "bad arguments, expected: (size, alignment)")
        ELSE IF size = 0 THEN Throw(args, "size must not be 0")
        ELSE IF size >= INT_MAX THEN Throw(args, "size must be at most 2147483647 bytes")
        ELSE IF alignment = 0 THEN Throw(args, "alignment must not be 0")
        ELSE IF BitAnd(alignment, alignment - 1) # 0 THEN Throw(args, "alignment must be a power of 2")
        ELSE IF alignment < 8 THEN Throw(args, "alignment must be at least 8 bytes")
        ELSE IF alignment > 4194304 THEN Throw(args, "alignment must be at most 4194304 bytes")
        ELSE IF alignment < ptr_size THEN Throw(args, "alignment must be at least as large as a pointer")
        ELSE Allocate(args, size, alignment, m)

\* get_aligned_buffer.
get_aligned_buffer(args, m) ==
    LET int_size == arg_int(Arg(args, 1))
        int_alignment == arg_int(Arg(args, 2))
        size == int_size.integer
        alignment == int_alignment.integer
    IN  IF Len(args) # 2 \/ ~int_size.ok \/ ~int_alignment.ok
        THEN Throw(args, "bad arguments, expected: (size, alignment)")
        ELSE IF size = 0 THEN Throw(args, "size must not be 0")
        ELSE IF size > INT_MAX THEN Throw(args, "size must be at most 2147483647 bytes")
        ELSE IF alignment = 0 THEN Throw(args, "alignment must not be 0")
        ELSE IF BitAnd(alignment, alignment - 1) # 0 THEN Throw(args, "alignment must be a power of 2")
        ELSE IF alignment < 8 THEN Throw(args, "alignment must be at least 8 bytes")
        ELSE IF alignment > 4194304 THEN Throw(args, "alignment must be at most 4194304 bytes")
        ELSE IF alignment < ptr_size THEN Throw(args, "alignment must be at least as large as a pointer")
        ELSE Allocate(args, size, alignment, m)

\* The byte at offset i of a buffer: zero where memset wrote, and what the
\* allocator left there elsewhere.
ByteAt(b, i) == IF i < b.zeroed THEN 0 ELSE b.garbage

\* Sizes and alignments the caller passes, and what the allocator answers.
AllocSizes ==
    { Num(0), Num(1), Num(4096), Num(INT_MAX), Pow31, NegOne, Half, NaN, Undefined }
AllocAlignments ==
    { Num(0), Num(1), Num(3), Num(4), Num(8), Num(12), Num(16), Num(4096), Num(4194304),
      Num(8388608), Num(INT_MAX), Pow31, NegOne, Undefined }
AllocArgs ==
    { <<sz, al>> : sz \in AllocSizes, al \in AllocAlignments }
    \cup { <<Num(4096)>>, <<Num(4096), Num(4096), Num(4096)>> }
AllocResults ==
    { [result |-> "ok", slot |-> k, garbage |-> g] : k \in {1, 3}, g \in {0, 170} }
    \cup { [result |-> "ENOMEM", slot |-> 0, garbage |-> 0] }

----------------------------------------------------------------------------
(* The actions: the calls of the binding on the main thread, the steps of  *)
(* a worker thread through an execute body, the cancellation of a queued   *)
(* work item, and task_complete back on the main thread.                   *)

Set(t, task) == tasks' = [tasks EXCEPT ![t] = task]

\* getBlockDevice(fd, callback).
CallGetBlockDevice ==
    /\ Running /\ Unused # {}
    /\ \E args \in BlockDeviceArgs, calloc_ok \in BOOLEAN : get_block_device(args, calloc_ok)
    /\ UNCHANGED <<platform, ptr_size, lock, aborted, buffer>>

\* setF_NOCACHE(fd, value, callback).
CallSetFNocache ==
    /\ Running /\ Unused # {}
    /\ \E args \in ToggleArgs, calloc_ok \in BOOLEAN : set_f_nocache(args, calloc_ok)
    /\ UNCHANGED <<platform, ptr_size, lock, aborted, buffer>>

\* setFlock(fd, value, callback).
CallSetFlock ==
    /\ Running /\ Unused # {}
    /\ \E args \in ToggleArgs, calloc_ok \in BOOLEAN : set_flock(args, calloc_ok)
    /\ UNCHANGED <<platform, ptr_size, lock, aborted, buffer>>

\* setFSCTL_LOCK_VOLUME(fd, value, callback).
CallSetFsctlLockVolume ==
    /\ Running /\ Unused # {}
    /\ \E args \in ToggleArgs, calloc_ok \in BOOLEAN : set_fsctl_lock_volume(args, calloc_ok)
    /\ UNCHANGED <<platform, ptr_size, lock, aborted, buffer>>

\* A worker thread takes the queued work and enters its execute body, whose
\* first statement is task_assert.
Start(t) ==
    /\ Running /\ tasks[t].pc = "queued"
    /\ IF task_assert(tasks[t])
       THEN /\ Set(t, [tasks[t] EXCEPT !.runs = @ + 1,
                                       !.pc = IF tasks[t].execute = "get_block_device"
                                              THEN "validate" ELSE "toggle"])
            /\ UNCHANGED aborted
       ELSE /\ aborted' = "task_assert"
            /\ UNCHANGED tasks
    /\ UNCHANGED <<platform, ptr_size, lock, thrown, buffer>>

\* task_execute_get_block_device up to line 463: a failed check returns.
ExecValidate(t) ==
    /\ Running /\ tasks[t].pc = "validate"
    /\ \E st \in StatResults :
         LET task == validate(tasks[t], st)
         IN  Set(t, [task EXCEPT !.pc = IF task.error # NoError THEN "executed" ELSE "size"])
    /\ UNCHANGED <<platform, ptr_size, lock, aborted, thrown, buffer>>

\* Line 464: if (!task->error) task_execute_get_block_device_size(task).
ExecSize(t) ==
    /\ Running /\ tasks[t].pc = "size"
    /\ \E g \in GeometryResults : \E ub \in UndefinedInt64(g) :
         LET task == IF tasks[t].error = NoError
                     THEN task_execute_get_block_device_size(tasks[t], g, ub)
                     ELSE tasks[t]
         IN  Set(t, [task EXCEPT !.pc = "serial"])
    /\ UNCHANGED <<platform, ptr_size, lock, aborted, thrown, buffer>>

\* ExecSerial without the test of the error slot.
ExecSerial_Unchecked(t, payloads) ==
    /\ Running /\ tasks[t].pc = "serial"
    /\ \E s \in SerialResults(payloads) :
         Set(t, [task_execute_get_block_device_serial(tasks[t], s) EXCEPT !.pc = "executed"])
    /\ UNCHANGED <<platform, ptr_size, lock, aborted, thrown, buffer>>

\* Line 465: if (!task->error) task_execute_get_block_device_serial(task),
\* and the body returns.
ExecSerial(t, payloads) ==
    /\ Running /\ tasks[t].pc = "serial"
    /\ \E s \in SerialResults(payloads) :
         LET task == IF tasks[t].error = NoError
                     THEN task_execute_get_block_device_serial(tasks[t], s)
                     ELSE tasks[t]
         IN  Set(t, [task EXCEPT !.pc = "executed"])
    /\ UNCHANGED <<platform, ptr_size, lock, aborted, thrown, buffer>>

\* task_execute_set_f_nocache.
ExecSetFNocache(t) ==
    /\ Running /\ tasks[t].pc = "toggle" /\ tasks[t].execute = "set_f_nocache"
    /\ \E errno \in {"none", "EBADF", "EINVAL"} :
         Set(t, [task_execute_set_f_nocache(tasks[t], errno) EXCEPT !.pc = "executed"])
    /\ UNCHANGED <<platform, ptr_size, lock, aborted, thrown, buffer>>

\* task_execute_set_flock, and what the call does to the lock.
ExecSetFlock(t) ==
    /\ Running /\ tasks[t].pc = "toggle" /\ tasks[t].execute = "set_flock"
    /\ \E errno \in {"none", "EWOULDBLOCK"} \cup FlockFaults :
         LET task == task_execute_set_flock(tasks[t], errno)
             operation == task.calls[Len(task.calls)]
         IN  /\ errno \in FlockErrnos(task.fd, operation)
             /\ Set(t, [task EXCEPT !.pc = "executed"])
             /\ lock' = FlockEffect(task.fd, operation, errno)
    /\ UNCHANGED <<platform, ptr_size, aborted, thrown, buffer>>

\* task_execute_set_fsctl_lock_volume.
ExecSetFsctlLockVolume(t) ==
    /\ Running /\ tasks[t].pc = "toggle" /\ tasks[t].execute = "set_fsctl_lock_volume"
    /\ \E handle \in BOOLEAN, ok \in BOOLEAN :
         Set(t, [task_execute_set_fsctl_lock_volume(tasks[t], handle, ok)
                   EXCEPT !.pc = "executed"])
    /\ UNCHANGED <<platform, ptr_size, lock, aborted, thrown, buffer>>

\* The work is cancelled while still queued (napi_cancel_async_work, or the
\* environment shutting down): its execute body will not run.
Cancel(t) ==
    /\ Running /\ tasks[t].pc = "queued"
    /\ Set(t, [tasks[t] EXCEPT !.pc = "cancelled"])
    /\ UNCHANGED <<platform, ptr_size, lock, aborted, thrown, buffer>>

\* The status N-API hands to the complete callback of a work item.
CompleteStatus(task) == IF task.pc = "cancelled" THEN "napi_cancelled" ELSE "napi_ok"

\* CanComplete that does not wait for the execute body to return.
CanComplete_Early(task) == task.pc \in {"serial", "toggle", "executed", "cancelled"}

\* When N-API calls the complete callback: after the execute body returned,
\* or after the cancellation.
CanComplete(task) == task.pc \in {"executed", "cancelled"}

\* task_complete on the main thread; the caller's callback may throw.
Complete(t) ==
    /\ Running /\ CanComplete(tasks[t])
    /\ \E throws \in BOOLEAN :
         LET r == task_complete(tasks[t], CompleteStatus(tasks[t]), throws)
         IN  /\ Set(t, r.task)
             /\ aborted' = r.abort
    /\ UNCHANGED <<platform, ptr_size, lock, thrown, buffer>>

\* getAlignedBuffer(size, alignment).
GetAlignedBuffer ==
    /\ Running
    /\ \E args \in AllocArgs, m \in AllocResults :
         LET r == get_aligned_buffer(args, m)
         IN  /\ thrown' = r.thrown
             /\ aborted' = r.abort
             /\ buffer' = r.buffer
    /\ UNCHANGED <<platform, ptr_size, tasks, lock>>

\* free_aligned: the garbage collector finalizes the external buffer.
FreeAligned ==
    /\ Running /\ buffer.allocated
    /\ buffer' = [buffer EXCEPT !.allocated = FALSE, !.finalized = @ + 1]
    /\ UNCHANGED <<platform, ptr_size, tasks, lock, aborted, thrown>>

\* The memory of a freed task is handed out again by a later calloc.
Reclaim(t) ==
    /\ Running /\ tasks[t].pc = "destroyed" /\ ~tasks[t].allocated
    /\ Set(t, NoTask)
    /\ UNCHANGED <<platform, ptr_size, lock, aborted, thrown, buffer>>

----------------------------------------------------------------------------
(* The specifications.                                                     *)

InitCommon ==
    /\ platform \in Platforms
    /\ tasks = [t \in TaskIds |-> NoTask]
    /\ lock = {}
    /\ aborted = NoAbort
    /\ thrown = NoThrow
    /\ buffer = NoBuffer(<<>>)

\* The task shell: up to MaxTasks tasks of any kind, interleaved.
Init == InitCommon /\ ptr_size = 8

Next ==
    \/ CallGetBlockDevice
    \/ CallSetFNocache
    \/ CallSetFlock
    \/ CallSetFsctlLockVolume
    \/ \E t \in TaskIds : Start(t)
    \/ \E t \in TaskIds : ExecValidate(t)
    \/ \E t \in TaskIds : ExecSize(t)
    \/ \E t \in TaskIds : ExecSerial(t, ShellPayloads)
    \/ \E t \in TaskIds : ExecSetFNocache(t)
    \/ \E t \in TaskIds : ExecSetFlock(t)
    \/ \E t \in TaskIds : ExecSetFsctlLockVolume(t)
    \/ \E t \in TaskIds : Cancel(t)
    \/ \E t \in TaskIds : Complete(t)

Spec == Init /\ [][Next]_vars

\* The serial study: one getBlockDevice task over every raw serial.
SerialNext ==
    \/ (tasks[1].pc = "unused" /\ CallGetBlockDevice)
    \/ Start(1)
    \/ ExecValidate(1)
    \/ ExecSize(1)
    \/ ExecSerial(1, SerialPayloads)
    \/ Complete(1)

SpecSerial == Init /\ [][SerialNext]_vars

\* The lock study: setFlock tasks without end on the two handles, at most
\* MaxTasks of them in flight.
FlockNext ==
    \/ CallSetFlock
    \/ \E t \in TaskIds : Start(t)
    \/ \E t \in TaskIds : ExecSetFlock(t)
    \/ \E t \in TaskIds : Cancel(t)
    \/ \E t \in TaskIds : Complete(t)
    \/ \E t \in TaskIds : Reclaim(t)

SpecFlock == Init /\ [][FlockNext]_vars

\* The allocator study: getAlignedBuffer on 32-bit and 64-bit builds.
InitAlloc == InitCommon /\ ptr_size \in {4, 8}

AllocNext == GetAlignedBuffer \/ FreeAligned

SpecAlloc == InitAlloc /\ [][AllocNext]_vars

----------------------------------------------------------------------------
(* The claims.                                                             *)

Enqueued == {t \in TaskIds : tasks[t].pc # "unused"}
DeviceTasks == {t \in Enqueued : tasks[t].device = 1}
\* The tasks task_complete has been called for.
Completed == {t \in Enqueued : tasks[t].status # "none"}
\* The tasks whose callback has been called.
Notified == {t \in Enqueued : tasks[t].callbacks > 0}
Executing == {"validate", "size", "serial", "toggle"}

CancelledError == [type |-> "error", message |-> "async work was cancelled"]

IsPrefix(a, b) == Len(a) <= Len(b) /\ a = SubSeq(b, 1, Len(a))

\* The native calls of a getBlockDevice task in which every step succeeds:
\* validation, then geometry, then identity.
FullCalls ==
    CASE platform = "linux" ->
           <<"fstat", "BLKSSZGET", "BLKPBSZGET", "BLKGETSIZE64", "SG_GET_VERSION_NUM", "SG_IO">>
      [] platform = "apple" ->
           <<"fstat", "DKIOCGETBLOCKSIZE", "DKIOCGETPHYSICALBLOCKSIZE", "DKIOCGETBLOCKCOUNT">>
      [] platform = "freebsd" ->
           <<"fstat", "DIOCGSECTORSIZE", "DIOCGSTRIPESIZE", "DIOCGMEDIASIZE", "DIOCGIDENT">>
      [] OTHER ->
           <<"uv_get_osfhandle", "IOCTL_STORAGE_QUERY_PROPERTY", "IOCTL_DISK_GET_DRIVE_GEOMETRY_EX">>

FullEvents ==
    <<"napi_call_function", "napi_delete_reference", "napi_delete_async_work", "free">>

\* C1: every task task_complete was called for, whatever its outcome, has had
\* its callback called exactly once, and no task has it called twice.
C1_CallbackExactlyOnce ==
    \A t \in Enqueued :
        /\ tasks[t].callbacks <= 1
        /\ t \in Completed => tasks[t].callbacks = 1

\* C2: a task cancelled before its execute body ran is completed with exactly
\* one callback call, whose only argument is the "async work was cancelled"
\* error, and its execute body and native calls never run.
C2_CancelledOnce ==
    \A t \in Enqueued :
        /\ tasks[t].pc = "cancelled" =>
             tasks[t].runs = 0 /\ tasks[t].calls = <<>> /\ tasks[t].callbacks = 0
        /\ tasks[t].status = "napi_cancelled" =>
             /\ tasks[t].pc = "destroyed"
             /\ tasks[t].callbacks = 1
             /\ tasks[t].argv = <<CancelledError>>
             /\ tasks[t].runs = 0
             /\ tasks[t].calls = <<>>

C2_Witness ==
    \E t \in Enqueued : tasks[t].status = "napi_cancelled" /\ tasks[t].callbacks = 1

\* C3: the callback of a getBlockDevice task gets either the error alone or
\* undefined and the info object with its four fields, the latter only when
\* no step failed and every native call of the query was made; an error is
\* delivered alone also when geometry fields were already written.
C3_ErrorOrFullInfo ==
    \A t \in DeviceTasks \cap Notified :
        IF tasks[t].error # NoError
        THEN tasks[t].argv = << [type |-> "error", message |-> tasks[t].error] >>
        ELSE /\ Len(tasks[t].argv) = 2
             /\ tasks[t].argv[1] = Undefined
             /\ DOMAIN tasks[t].argv[2] =
                  {"type", "logicalSectorSize", "physicalSectorSize", "size", "serialNumber"}
             /\ tasks[t].calls = FullCalls

\* An error delivered alone although the task holds sector sizes.
C3_Witness ==
    \E t \in DeviceTasks \cap Notified :
        /\ tasks[t].error # NoError
        /\ tasks[t].device_sector_logical # Int64Zero
        /\ Len(tasks[t].argv) = 1

\* C4: the native calls of a getBlockDevice task are made in the order
\* validation, geometry, identity (they are a prefix of FullCalls), and once
\* the error slot is set no further native call is made.
C4_OrderAndShortCircuit ==
    /\ [](\A t \in DeviceTasks : IsPrefix(tasks[t].calls, FullCalls))
    /\ [][\A t \in TaskIds :
            (tasks[t].device = 1 /\ tasks[t].error # NoError)
                => tasks'[t].calls = tasks[t].calls]_vars

\* A geometry control code failed and the body returned without the identity read.
C4_Witness ==
    \E t \in DeviceTasks :
        /\ platform = "linux"
        /\ tasks[t].pc = "executed"
        /\ tasks[t].error = "BLKPBSZGET failed"
        /\ tasks[t].calls = <<"fstat", "BLKSSZGET", "BLKPBSZGET">>

C6_ReleasedOnce ==
    \A t \in Enqueued :
        /\ tasks[t].events \in {<<>>, FullEvents}
        /\ t \in Notified =>
             /\ tasks[t].events = FullEvents
             /\ ~tasks[t].ref_callback /\ ~tasks[t].async_work /\ ~tasks[t].allocated
        /\ t \notin Notified =>
             /\ tasks[t].events = <<>>
             /\ tasks[t].ref_callback /\ tasks[t].async_work /\ tasks[t].allocated

C6_Witness ==
    \E t \in Notified : tasks[t].threw /\ tasks[t].events = FullEvents

\* A getAlignedBuffer call has been made (every call passes an argument).
Called == buffer.args # <<>>

IsPowerOfTwo(n) == \E k \in 0..30 : n = 2 ^ k

\* The first of the seven preconditions, in the order of the contract, that
\* (size, alignment) violates, as the failure it is reported with; NoThrow
\* when it violates none.
FirstViolated(size, alignment) ==
    LET checks ==
          << [holds |-> size # 0, failure |-> "size must not be 0"],
             [holds |-> size <= INT_MAX, failure |-> "size must be at most 2147483647 bytes"],
             [holds |-> alignment # 0, failure |-> "alignment must not be 0"],
             [holds |-> IsPowerOfTwo(alignment), failure |-> "alignment must be a power of 2"],
             [holds |-> alignment >= 8, failure |-> "alignment must be at least 8 bytes"],
             [holds |-> alignment <= 4 * 1024 * 1024,
              failure |-> "alignment must be at most 4194304 bytes"],
             [holds |-> alignment >= ptr_size,
              failure |-> "alignment must be at least as large as a pointer"] >>
        violated == {i \in 1..7 : ~checks[i].holds}
    IN  IF violated = {} THEN NoThrow
        ELSE checks[CHOOSE i \in violated : \A j \in violated : i <= j].failure

ValidAlignment(value) ==
    /\ arg_int(value).ok
    /\ IsPowerOfTwo(arg_int(value).integer)
    /\ arg_int(value).integer >= 8
    /\ arg_int(value).integer <= 4 * 1024 * 1024

\* C8: getAlignedBuffer with size 0 or size 2^31 throws and returns no
\* buffer, whatever the alignment; with size 2^31 - 1 and a valid alignment
\* it returns a buffer of that size unless the allocator is out of memory.
C8_SizeLimits ==
    (Called /\ Len(buffer.args) = 2) =>
        /\ buffer.args[1] \in {Num(0), Pow31} =>
             thrown # NoThrow /\ buffer.finalizer = "none"
        /\ (buffer.args[1] = Num(INT_MAX) /\ ValidAlignment(buffer.args[2])) =>
             \/ thrown = "insufficient memory" /\ buffer.finalizer = "none"
             \/ thrown = NoThrow /\ buffer.finalizer # "none" /\ buffer.size = INT_MAX

C8_Witness ==
    /\ Called
    /\ Len(buffer.args) = 2
    /\ buffer.args[1] = Num(INT_MAX)
    /\ buffer.allocated
    /\ buffer.size = INT_MAX
    /\ thrown = NoThrow

\* C9: a buffer getAlignedBuffer returns starts at a multiple of the
\* alignment asked for, and its bytes (the first, the middle and the last
\* stand for all) are zero.
C9_AlignedAndZeroed ==
    buffer.allocated =>
        /\ buffer.ptr % buffer.alignment = 0
        /\ buffer.zeroed = buffer.size
        /\ \A i \in {0, (buffer.size - 1) \div 2, buffer.size - 1} : ByteAt(buffer, i) = 0

\* The allocator handed out memory that was not zero.
C9_Witness ==
    /\ buffer.allocated
    /\ buffer.garbage # 0
    /\ buffer.size = 4096
    /\ buffer.alignment = 4096
    /\ buffer.ptr = 3 * 4096

\* The bytes of device_serial the execute body counted.
RawSerial(task) == SubSeq(task.device_serial, 1, task.device_serial_size)

\* trimmed is raw without its leading and trailing spaces: a stretch of raw
\* with only spaces before and after it, itself not starting or ending with one.
IsTrimOf(trimmed, raw) ==
    \E i \in 1..(Len(raw) + 1), j \in 0..Len(raw) :
        /\ trimmed = SubSeq(raw, i, j)
        /\ \A k \in 1..(i - 1) : raw[k] = 32
        /\ \A k \in (j + 1)..Len(raw) : raw[k] = 32
        /\ trimmed = <<>> \/ (trimmed[1] # 32 /\ trimmed[Len(trimmed)] # 32)

ABC123 == <<65, 66, 67, 49, 50, 51>>

\* C10: the serialNumber of every delivered info object is the raw serial
\* without its leading and trailing spaces, the bytes between them
\* unchanged; "  ABC123  " is delivered as "ABC123".
C10_SerialTrimmed ==
    \A t \in DeviceTasks \cap Notified :
        Len(tasks[t].argv) = 2 =>
            /\ IsTrimOf(tasks[t].argv[2].serialNumber, RawSerial(tasks[t]))
            /\ RawSerial(tasks[t]) = Example => tasks[t].argv[2].serialNumber = ABC123

C10_Witness ==
    \E t \in DeviceTasks \cap Notified :
        /\ Len(tasks[t].argv) = 2
        /\ RawSerial(tasks[t]) = Example
        /\ tasks[t].argv[2].serialNumber = ABC123

\* The flock tasks, and the step of task t through task_execute_set_flock.
FlockTasks == {t \in Enqueued : tasks[t].execute = "set_flock"}
FlockStep(t) ==
    /\ tasks[t].pc = "toggle" /\ tasks[t].execute = "set_flock"
    /\ tasks'[t].pc = "executed"

WouldBlock == "EWOULDBLOCK, the file is already locked"

\* C11: with two handles on the one file, a lock request (value = 1) on a
\* handle while the other handle holds the lock ends in an error and leaves
\* the lock with its holder, and the error is "would block" unless flock
\* failed for another reason than contention; a lock request while no other
\* handle holds the lock succeeds and makes its handle the one holder, and a
\* release (value = 0) succeeds and takes the lock from its handle only,
\* again unless flock failed; at no time do two handles hold the lock.
C11_TwoHandles ==
    /\ [](Cardinality(lock) <= 1)
    /\ [][\A t \in TaskIds : FlockStep(t) =>
            LET fd == tasks[t].fd
                failed == tasks'[t].errno \in FlockFaults
                contended == lock \ {fd} # {}
            IN  /\ (tasks[t].value = 1 /\ contended) =>
                     /\ tasks'[t].error # NoError
                     /\ lock' = lock
                     /\ ~failed => tasks'[t].error = WouldBlock
                /\ (tasks[t].value = 1 /\ ~contended /\ ~failed) =>
                     /\ tasks'[t].error = NoError
                     /\ lock' = {fd}
                /\ (tasks[t].value = 0 /\ ~failed) =>
                     /\ tasks'[t].error = NoError
                     /\ lock' = lock \ {fd}
                /\ failed => (tasks'[t].error # NoError /\ lock' = lock)]_vars

\* Handle 4 was refused the lock with "would block", and a later request on
\* handle 4 has obtained it.
C11_Witness ==
    \E t, u \in FlockTasks :
        /\ tasks[t].fd = 4 /\ tasks[t].value = 1 /\ tasks[t].error = WouldBlock
        /\ tasks[t].pc = "destroyed"
        /\ tasks[u].fd = 4 /\ tasks[u].value = 1 /\ tasks[u].error = NoError
        /\ tasks[u].pc = "executed"
        /\ lock = {4}

\* C12: a call of a toggle on a platform other than its own (setF_NOCACHE
\* outside macOS, setFlock on Windows, setFSCTL_LOCK_VOLUME outside Windows)
\* throws the toggle's "not supported on this platform" error whatever its
\* arguments, enqueues no task and issues no native call.
C12_PlatformGates ==
    [][ /\ (platform # "apple" /\ CallSetFNocache) =>
             (thrown' = "only supported on mac os" /\ UNCHANGED <<tasks, lock>>)
        /\ (platform = "win32" /\ CallSetFlock) =>
             (thrown' = "not supported on windows" /\ UNCHANGED <<tasks, lock>>)
        /\ (platform # "win32" /\ CallSetFsctlLockVolume) =>
             (thrown' = "only supported on windows" /\ UNCHANGED <<tasks, lock>>) ]_vars

\* setFSCTL_LOCK_VOLUME was called on Linux: it threw and nothing is enqueued.
C12_Witness ==
    /\ platform = "linux"
    /\ thrown = "only supported on windows"
    /\ Enqueued = {}

NotADevice == "fd is not a block or character device"

\* The getBlockDevice tasks whose fstat succeeded.
Statted == {t \in DeviceTasks : tasks[t].st_mode # "none"}

\* The platforms of the BSD family, read at its widest.
BsdFamily == {"freebsd", "apple"}

\* C13 as stated: where the descriptor check exists, a handle passes
\* validation only if it is a block device or, on a BSD-family platform, a
\* character device; every other handle fails with "not a block or character
\* device" after fstat alone, with no geometry or identity control code.
C13_BlockOrBsdCharacter ==
    \A t \in Statted :
        IF \/ tasks[t].st_mode = "S_IFBLK"
           \/ (platform \in BsdFamily /\ tasks[t].st_mode = "S_IFCHR")
        THEN tasks[t].error # NotADevice
        ELSE tasks[t].error = NotADevice /\ tasks[t].calls = <<"fstat">>

\* C13, amended: where the descriptor check exists (every platform but
\* Windows), a handle passes validation only if it is a block device or a
\* character device, on any of these platforms; every other handle fails
\* with "not a block or character device" after fstat alone, with no
\* geometry or identity control code; on Windows no fstat is made.
C13_BlockOrCharacter ==
    /\ platform = "win32" => Statted = {}
    /\ \A t \in Statted :
         IF tasks[t].st_mode \in {"S_IFBLK", "S_IFCHR"}
         THEN tasks[t].error # NotADevice
         ELSE tasks[t].error = NotADevice /\ tasks[t].calls = <<"fstat">>
    /\ \A t \in DeviceTasks :
         (platform # "win32" /\ Len(tasks[t].calls) > 1) =>
             tasks[t].st_mode \in {"S_IFBLK", "S_IFCHR"}

\* A regular file was refused and the caller told so.
C13_Witness ==
    \E t \in Statted \cap Notified :
        /\ tasks[t].st_mode = "S_IFREG"
        /\ tasks[t].calls = <<"fstat">>
        /\ tasks[t].argv = << [type |-> "error", message |-> NotADevice] >>

\* The five native failures of flock the contract names, and the error of
\* the fallback branch.
FlockNative == {"EWOULDBLOCK", "EBADF", "EINTR", "EINVAL", "ENOTSUP"}
FlockFallback == "unable to obtain an exclusive lock"

\* C14: a setFlock task whose flock failed with "would block", "bad
\* descriptor", "interrupted", "wrong file type" or "unsupported" carries an
\* error that is not the fallback error, that differs from the error of any
\* task whose flock failed with another of the five, and that is the error
\* its callback receives.
C14_DistinctFlockErrors ==
    \A t \in FlockTasks :
        tasks[t].errno \in FlockNative =>
            /\ tasks[t].error \notin {NoError, FlockFallback}
            /\ \A u \in FlockTasks :
                 (tasks[u].errno \in FlockNative /\ tasks[u].errno # tasks[t].errno) =>
                     tasks[u].error # tasks[t].error
            /\ t \in Notified =>
                 tasks[t].argv = << [type |-> "error", message |-> tasks[t].error] >>

\* Two tasks told of different failures, one of them "would block".
C14_Witness ==
    \E t, u \in FlockTasks \cap Notified :
        /\ tasks[t].errno = "EWOULDBLOCK"
        /\ tasks[u].errno = "ENOTSUP"
        /\ tasks[t].argv # tasks[u].argv

\* The getBlockDevice tasks whose SCSI copy loop has run.
Copied == {t \in DeviceTasks : platform = "linux" /\ tasks[t].dxferp # <<>>}

Min3(a, b, c) == IF a <= b /\ a <= c THEN a ELSE IF b <= c THEN b ELSE c

\* C15: after a successful INQUIRY that echoes page code 0x80, the serial
\* holds exactly min(responseLength, declaredLength, bufferCapacity) bytes,
\* the bytes of the response from offset 4 on, where declaredLength is the
\* byte at response offset 3, responseLength the number of bytes the device
\* returned and bufferCapacity the capacity of the serial buffer.
C15_CopiesMinimum ==
    \A t \in Copied :
        LET response == tasks[t].dxferp
            copied == tasks[t].device_serial_size
        IN  /\ copied = Min3(Len(response), response[4], DEVICE_SERIAL_MAX)
            /\ \A i \in 0..(copied - 1) :
                 /\ 4 + i < Len(response)
                 /\ tasks[t].device_serial[i + 1] = response[4 + i + 1]

\* C18: every byte the SCSI copy loop copies is read at an index inside the
\* 255-byte response buffer (4 + i < 255) and written at an index inside the
\* serial buffer, whatever length the page declares at offset 3.
C18_CopyInBounds ==
    \A t \in Copied :
        \A i \in 0..(tasks[t].device_serial_size - 1) :
            /\ 4 + i < DXFERP_SIZE
            /\ i < DEVICE_SERIAL_MAX

\* The getBlockDevice tasks whose geometry read has succeeded.
Measured ==
    {t \in DeviceTasks : /\ tasks[t].error = NoError
                         /\ tasks[t].pc \in {"serial", "executed", "completing", "destroyed"}}

\* C16: on macOS, which reports a sector count, the size of a successful
\* geometry read is the sector size times the sector count as integers (the
\* product taken in 16 bytes, where nothing is lost), for every sector size
\* and sector count the device reports.
C16_SizeIsExactProduct ==
    \A t \in Measured :
        platform = "apple" =>
            /\ ~IsNegative(tasks[t].device_size)
            /\ tasks[t].device_size \o Zeros(8) =
                 MulBytes(tasks[t].device_sector_logical \o Zeros(8), tasks[t].logical_sectors)

\* C19: every integer task_complete hands to set_int is non-negative, so the
\* assertion of set_int never ends the process: after a successful geometry
\* read logicalSectorSize, physicalSectorSize and size are >= 0 as int64_t.
C19_SetIntNeverFails ==
    /\ aborted # "set_int: integer >= 0"
    /\ \A t \in Measured :
         /\ ~IsNegative(tasks[t].device_sector_logical)
         /\ ~IsNegative(tasks[t].device_sector_physical)
         /\ ~IsNegative(tasks[t].device_size)

\* The error named after each control code of the geometry and identity reads.
ControlCodeError ==
    [ BLKSSZGET |-> "BLKSSZGET failed",
      BLKPBSZGET |-> "BLKPBSZGET failed",
      BLKGETSIZE64 |-> "BLKGETSIZE64 failed",
      SG_GET_VERSION_NUM |-> "SG_GET_VERSION_NUM failed",
      SG_IO |-> "SG_IO failed",
      DKIOCGETBLOCKSIZE |-> "DKIOCGETBLOCKSIZE failed",
      DKIOCGETPHYSICALBLOCKSIZE |-> "DKIOCGETPHYSICALBLOCKSIZE failed",
      DKIOCGETBLOCKCOUNT |-> "DKIOCGETBLOCKCOUNT failed",
      IOCTL_STORAGE_QUERY_PROPERTY |-> "IOCTL_STORAGE_QUERY_PROPERTY failed",
      IOCTL_DISK_GET_DRIVE_GEOMETRY_EX |-> "IOCTL_DISK_GET_DRIVE_GEOMETRY_EX failed",
      DIOCGSECTORSIZE |-> "DIOCGSECTORSIZE failed",
      DIOCGSTRIPESIZE |-> "DIOCGSTRIPESIZE failed",
      DIOCGMEDIASIZE |-> "DIOCGMEDIASIZE failed",
      DIOCGIDENT |-> "DIOCGIDENT failed" ]

LastCall(task) == task.calls[Len(task.calls)]

\* C17: when a control code of a getBlockDevice task fails, it is the last
\* native call of the task, the task's error is the one named after it, and
\* that error is what the callback receives; once the error slot of the task
\* is set, no step changes or clears it and no further native call is made.
C17_FirstFailureNamed ==
    /\ [](\A t \in DeviceTasks :
            tasks[t].ioctl_failed =>
                /\ LastCall(tasks[t]) \in DOMAIN ControlCodeError
                /\ tasks[t].error = ControlCodeError[LastCall(tasks[t])]
                /\ t \in Notified =>
                     tasks[t].argv =
                       << [type |-> "error", message |-> ControlCodeError[LastCall(tasks[t])]] >>)
    /\ [][\A t \in TaskIds :
            (tasks[t].device = 1 /\ tasks[t].error # NoError) =>
                /\ tasks'[t].error = tasks[t].error
                /\ tasks'[t].calls = tasks[t].calls]_vars

\* The second control code of the Linux geometry read failed and the caller
\* was told so.
C17_Witness ==
    \E t \in DeviceTasks \cap Notified :
        /\ tasks[t].ioctl_failed
        /\ tasks[t].calls = <<"fstat", "BLKSSZGET", "BLKPBSZGET">>
        /\ tasks[t].argv = << [type |-> "error", message |-> "BLKPBSZGET failed"] >>

\* The tasks of the three toggles.
ToggleTasks == {t \in Enqueued : tasks[t].device = 0}

DeviceFieldsZero(task) ==
    /\ task.device_sector_logical = Int64Zero
    /\ task.device_sector_physical = Int64Zero
    /\ task.device_size = Int64Zero
    /\ task.device_serial_size = 0

\* C20: the assertions on the task never end the process: every task has
\* fd >= 0, value 0 or 1 and device 0 or 1; a task about to enter its execute
\* body has every device field zero and no error; a toggle task has every
\* device field zero at all times, and the callback of one that succeeded
\* received the single argument undefined.
C20_TaskAssertions ==
    /\ aborted \notin {"task_assert", "task_complete: device field of a toggle task is not 0"}
    /\ \A t \in Enqueued :
         /\ tasks[t].fd >= 0
         /\ tasks[t].value \in {0, 1}
         /\ tasks[t].device \in {0, 1}
         /\ tasks[t].pc = "queued" =>
              (DeviceFieldsZero(tasks[t]) /\ tasks[t].error = NoError)
    /\ \A t \in ToggleTasks :
         /\ DeviceFieldsZero(tasks[t])
         /\ (t \in Notified /\ tasks[t].error = NoError) => tasks[t].argv = <<Undefined>>

\* A toggle ran, succeeded and its callback was called.
C20_Witness ==
    \E t \in ToggleTasks \cap Notified :
        /\ tasks[t].runs = 1
        /\ tasks[t].error = NoError
        /\ tasks[t].argv = <<Undefined>>
        /\ DeviceFieldsZero(tasks[t])

====
